---- MODULE Spec2Model ----
(***************************************************************************)
(* State-machine model of the ETL pipeline script                          *)
(* (Python_Scripts/data-operations/etl_pipeline.py): main, ETLPipeline.run *)
(* and the Extract / Transform / Validate / Load stages it sequences.      *)
(***************************************************************************)
EXTENDS Integers, Sequences, FiniteSets, TLC

(* ------------------------------ bounds -------------------------------- *)
MaxRows == 1
MaxSteps == 2
MaxChecks == 2
MaxFrameRows == 3
MaxCleanRows == 2
MaxConds == 2
MaxApiRows == 3
MaxBatchSize == 2
MaxTableRows == 2
MaxPage == 2
MaxRecords == 2        \* rows of the synchronised table
MaxClock == 3          \* instants of the clock
MaxSyncs == 2          \* calls of sync_table

(* --------------------------- optional values -------------------------- *)
\* Python's None / pandas' NaN is the empty sequence, a present value v is <<v>>.
Null == <<>>
Some(v) == <<v>>
IsNull(c) == c = <<>>

SeqsUpTo(S, n) == UNION {[1..m -> S] : m \in 0..n}

(* ------------------------------ batches ------------------------------- *)
\* A DataFrame: its column labels and its rows (each a function column -> cell).
NoBatch == [cols |-> {}, rows |-> <<>>]

\* pandas.DataFrame.empty: true when either axis has length 0.
DfEmptyNever(b) == FALSE
DfEmpty(b) == Len(b.rows) = 0 \/ b.cols = {}

\* The batches the configured source can hold in this model.
IdValues == {Some(1)}
AgeValues == {Some(20), Null}
SourceRows == {[c \in {"id", "age"} |-> IF c = "id" THEN i ELSE a] : i \in IdValues, a \in AgeValues}
\* The last one is a frame of one record without fields (an XML element without
\* children): one row, no column.
SourceBatches ==
    {[cols |-> {"id", "age"}, rows |-> r] : r \in SeqsUpTo(SourceRows, MaxRows)}
        \cup {[cols |-> {}, rows |-> << <<>> >>]}

(* --------------------------- configuration ---------------------------- *)
SupportedSources == {"csv", "json", "xml", "database", "api", "s3", "ftp"}
SupportedDestinations == {"csv", "json", "database", "s3", "api"}

\* The kinds the model's configurations draw from: one the dispatcher serves
\* and one member of the Enum that no branch of the dispatcher serves.
SourceTypes == {"csv", "kafka"}
DestinationTypes == {"csv", "elasticsearch"}

\* pipeline_config.get('stop_on_validation_error', True): the key may be absent.
StopFlags == {Null, Some(TRUE), Some(FALSE)}

StepDescriptors ==
    { [type |-> "filter_rows", conditions |-> <<[column |-> "age", operator |-> ">=", value |-> 18]>>, columns |-> <<>>],
      [type |-> "drop_columns", conditions |-> <<>>, columns |-> <<"age">>],
      [type |-> "normalize", conditions |-> <<>>, columns |-> <<>>] }

CheckDescriptors ==
    { [type |-> "not_null", columns |-> <<"age">>, column |-> "", min |-> Null, max |-> Null],
      [type |-> "schema", columns |-> <<>>, column |-> "", min |-> Null, max |-> Null] }

NoConfig ==
    [source_type |-> "", destination_type |-> "", transformations |-> <<>>,
     checks |-> <<>>, stop_on_validation_error |-> Null]

Configs ==
    [source_type : SourceTypes, destination_type : DestinationTypes,
     transformations : SeqsUpTo(StepDescriptors, MaxSteps),
     checks : SeqsUpTo(CheckDescriptors, MaxChecks),
     stop_on_validation_error : StopFlags]

(* --------------------------- transform steps -------------------------- *)
\* DataTransformer._filter_rows: one comparison of a cell with the configured
\* value, with pandas' treatment of NaN (every ordered comparison and == is
\* False for NaN, != is True, isin is False).
Recognised(op) == op \in {"==", "!=", ">", "<", ">=", "<=", "in", "not_in"}

\* Variant: > is read as >=.
CondHoldsInclusive(cell, op, value) ==
    CASE op = "=="     -> ~IsNull(cell) /\ cell[1] = value
      [] op = "!="     -> IsNull(cell) \/ cell[1] # value
      [] op = ">"      -> ~IsNull(cell) /\ cell[1] >= value
      [] op = "<"      -> ~IsNull(cell) /\ cell[1] < value
      [] op = ">="     -> ~IsNull(cell) /\ cell[1] >= value
      [] op = "<="     -> ~IsNull(cell) /\ cell[1] <= value
      [] op = "in"     -> ~IsNull(cell) /\ cell[1] \in value
      [] op = "not_in" -> IsNull(cell) \/ cell[1] \notin value
      [] OTHER         -> TRUE

CondHolds(cell, op, value) ==
    CASE op = "=="     -> ~IsNull(cell) /\ cell[1] = value
      [] op = "!="     -> IsNull(cell) \/ cell[1] # value
      [] op = ">"      -> ~IsNull(cell) /\ cell[1] > value
      [] op = "<"      -> ~IsNull(cell) /\ cell[1] < value
      [] op = ">="     -> ~IsNull(cell) /\ cell[1] >= value
      [] op = "<="     -> ~IsNull(cell) /\ cell[1] <= value
      [] op = "in"     -> ~IsNull(cell) /\ cell[1] \in value
      [] op = "not_in" -> IsNull(cell) \/ cell[1] \notin value
      [] OTHER         -> TRUE

\* The loop over the conditions: each one narrows df in turn.
RECURSIVE FilterFrom(_, _, _)
FilterFrom(rows, conds, n) ==
    IF n > Len(conds) THEN rows
    ELSE LET c == conds[n]
             kept == IF Recognised(c.operator)
                     THEN SelectSeq(rows, LAMBDA r : CondHolds(r[c.column], c.operator, c.value))
                     ELSE rows
         IN FilterFrom(kept, conds, n + 1)

FilterRows(b, step) == [b EXCEPT !.rows = FilterFrom(b.rows, step.conditions, 1)]

\* df[column] raises KeyError for a column the frame does not have.
FilterRaises(b, step) ==
    \E n \in 1..Len(step.conditions) :
        /\ Recognised(step.conditions[n].operator)
        /\ step.conditions[n].column \notin b.cols

Range(s) == {s[n] : n \in 1..Len(s)}

\* DataTransformer._drop_columns: df.drop(columns=..., errors='ignore').
DropColumns(b, step) ==
    LET keep == b.cols \ Range(step.columns)
    IN [cols |-> keep, rows |-> [n \in 1..Len(b.rows) |-> [c \in keep |-> b.rows[n][c]]]]

(* ------------------------------- text -------------------------------- *)
\* A str cell is <<"str", t>> with t the sequence of its characters, a
\* Timestamp cell is <<"ts", year>>; a number cell stays Some(n).
Str(t) == <<"str", t>>
IsText(cell) == Len(cell) = 2 /\ cell[1] = "str"
IsNumber(cell) == Len(cell) = 1

\* str.strip(): leading and trailing blanks go.
RECURSIVE LStrip(_)
LStrip(t) == IF t # <<>> /\ Head(t) = " " THEN LStrip(Tail(t)) ELSE t
RECURSIVE RStrip(_)
RStrip(t) == IF t # <<>> /\ t[Len(t)] = " " THEN RStrip(SubSeq(t, 1, Len(t) - 1)) ELSE t
Strip(t) == RStrip(LStrip(t))

\* Decimal numerals, as int(), pd.to_numeric and str() read and write them.
DigitChars == <<"0", "1", "2", "3", "4", "5", "6", "7", "8", "9">>
IsDigit(ch) == \E d \in 1..Len(DigitChars) : DigitChars[d] = ch
DigitValue(ch) == (CHOOSE d \in 1..Len(DigitChars) : DigitChars[d] = ch) - 1
IsDecimal(t) == t # <<>> /\ \A n \in 1..Len(t) : IsDigit(t[n])
RECURSIVE Decimal(_)
Decimal(t) ==
    IF t = <<>> THEN 0
    ELSE Len(DigitChars) * Decimal(SubSeq(t, 1, Len(t) - 1)) + DigitValue(t[Len(t)])
RECURSIVE DecimalText(_)
DecimalText(n) ==
    IF n < Len(DigitChars) THEN <<DigitChars[n + 1]>>
    ELSE Append(DecimalText(n \div Len(DigitChars)), DigitChars[(n % Len(DigitChars)) + 1])

(* ---------------------------- convert_types --------------------------- *)
\* Whether the conversion of one cell goes through.  pd.to_numeric with
\* errors='coerce' never raises; pd.to_datetime and astype are called with
\* their defaults and raise on a value they cannot read (the datetime texts
\* of this model are a year of four digits, or not a date at all).
CellConverts(cell, dtype) ==
    CASE dtype = "numeric"  -> TRUE
      [] dtype = "datetime" -> IsNull(cell) \/ (IsText(cell) /\ IsDecimal(cell[2]) /\ Len(cell[2]) = 4)
      [] dtype = "int64"    -> IsNumber(cell) \/ (IsText(cell) /\ IsDecimal(cell[2]))
      [] OTHER              -> FALSE

Converted(cell, dtype) ==
    IF ~IsText(cell) THEN cell
    ELSE CASE dtype = "numeric"  -> IF IsDecimal(cell[2]) THEN Some(Decimal(cell[2])) ELSE Null
           [] dtype = "datetime" -> <<"ts", Decimal(cell[2])>>
           [] OTHER              -> Some(Decimal(cell[2]))

\* The conversion of a column is one call: one bad cell fails all of it.
ColumnConverts(b, column, dtype) ==
    \A n \in 1..Len(b.rows) : CellConverts(b.rows[n][column], dtype)

ConvertColumn(b, column, dtype) ==
    [b EXCEPT !.rows = [n \in 1..Len(b.rows) |->
                           [b.rows[n] EXCEPT ![column] = Converted(@, dtype)]]]

\* DataTransformer._convert_types: the mapping's items in order; a column the
\* frame lacks is passed over, a conversion that raises is logged as a warning
\* and leaves its column as it was.  The result is the frame and the warnings.
RECURSIVE ConvertFrom(_, _, _, _)
ConvertFrom(b, mapping, n, warnings) ==
    IF n > Len(mapping) THEN [frame |-> b, warnings |-> warnings]
    ELSE LET m == mapping[n]
         IN IF m.column \notin b.cols THEN ConvertFrom(b, mapping, n + 1, warnings)
            ELSE IF ColumnConverts(b, m.column, m.dtype)
                 THEN ConvertFrom(ConvertColumn(b, m.column, m.dtype), mapping, n + 1, warnings)
                 ELSE ConvertFrom(b, mapping, n + 1,
                                  Append(warnings, <<"WARNING", "Could not convert">>))

ConvertTypes(b, step) == ConvertFrom(b, step.mapping, 1, <<>>).frame
ConvertWarnings(b, step) == ConvertFrom(b, step.mapping, 1, <<>>).warnings

(* ------------------------------ clean_data ---------------------------- *)
\* df.drop_duplicates(): no subset, so two rows are duplicates when every
\* column agrees (NaN with NaN too); the first of them stays.
RECURSIVE DropDuplicatesFrom(_, _)
DropDuplicatesFrom(rows, n) ==
    IF n = 0 THEN <<>>
    ELSE IF \E m \in 1..(n - 1) : rows[m] = rows[n]
         THEN DropDuplicatesFrom(rows, n - 1)
         ELSE Append(DropDuplicatesFrom(rows, n - 1), rows[n])

\* Variant: rows are duplicates when their id column (the key) agrees.
DropDuplicatesByKey(rows) ==
    LET key(r) == IF "id" \in DOMAIN r THEN r["id"] ELSE r
        first(n) == ~\E m \in 1..(n - 1) : key(rows[m]) = key(rows[n])
        kept == SelectSeq([n \in 1..Len(rows) |-> <<rows[n], first(n)>>], LAMBDA e : e[2])
    IN [n \in 1..Len(kept) |-> kept[n][1]]
DropDuplicates(rows) == DropDuplicatesFrom(rows, Len(rows))

\* df.dropna(): a row with a null anywhere goes.
DropNa(rows) == SelectSeq(rows, LAMBDA r : \A c \in DOMAIN r : ~IsNull(r[c]))

\* df.fillna(fill_value), fill_value defaulting to 0.
DefaultFill == Some(0)
FillValue(ops) == IF IsNull(ops.fill_value) THEN DefaultFill ELSE ops.fill_value[1]
FillNa(rows, v) ==
    [n \in 1..Len(rows) |-> [c \in DOMAIN rows[n] |-> IF IsNull(rows[n][c]) THEN v ELSE rows[n][c]]]

\* The columns of dtype object (those that hold a str); their non-null cells
\* become str(cell).strip().
ObjectColumns(cols, rows) == {c \in cols : \E n \in 1..Len(rows) : IsText(rows[n][c])}
TrimCell(cell) ==
    IF IsNull(cell) THEN cell
    ELSE IF IsText(cell) THEN Str(Strip(cell[2]))
    ELSE Str(DecimalText(cell[1]))
TrimStrings(cols, rows) ==
    LET object == ObjectColumns(cols, rows)
    IN [n \in 1..Len(rows) |->
           [c \in DOMAIN rows[n] |-> IF c \in object THEN TrimCell(rows[n][c]) ELSE rows[n][c]]]

\* DataTransformer._clean_data: the three tests in the order of the code,
\* duplicates first, then nulls, then the trimming.
CleanData(b, step) ==
    LET ops == step.operations
        deduped == IF ops.remove_duplicates THEN DropDuplicates(b.rows) ELSE b.rows
        handled == IF ops.handle_nulls = Some("drop") THEN DropNa(deduped)
                   ELSE IF ops.handle_nulls = Some("fill") THEN FillNa(deduped, FillValue(ops))
                   ELSE deduped
        trimmed == IF ops.trim_strings THEN TrimStrings(b.cols, handled) ELSE handled
    IN [b EXCEPT !.rows = trimmed]

\* config['conditions'], config['mapping'], config['operations']: KeyError
\* when the descriptor has no such key.
MissingParameter(step) ==
    \/ step.type = "filter_rows" /\ "conditions" \notin DOMAIN step
    \/ step.type = "convert_types" /\ "mapping" \notin DOMAIN step
    \/ step.type = "clean_data" /\ "operations" \notin DOMAIN step
    \/ step.type = "drop_columns" /\ "columns" \notin DOMAIN step

\* DataTransformer.transform, one turn of its loop: the dispatch on the type.
StepRaises(b, step) ==
    \/ MissingParameter(step)
    \/ step.type = "filter_rows" /\ ~MissingParameter(step) /\ FilterRaises(b, step)

ApplyStep(b, step) ==
    CASE step.type = "filter_rows"   -> FilterRows(b, step)
      [] step.type = "drop_columns"  -> DropColumns(b, step)
      [] step.type = "convert_types" -> ConvertTypes(b, step)
      [] step.type = "clean_data"    -> CleanData(b, step)
      [] OTHER                       -> b

(* -------------------------- validation checks ------------------------- *)
\* Each check ends "pass" (True), "fail" (False) or "raise" (an exception).
ColumnHasNull(b, c) == \E n \in 1..Len(b.rows) : IsNull(b.rows[n][c])

\* DataValidator._check_not_null: the columns in order, the first null decides.
RECURSIVE NotNullFrom(_, _, _)
NotNullFrom(b, columns, n) ==
    IF n > Len(columns) THEN "pass"
    ELSE IF columns[n] \notin b.cols THEN "raise"
    ELSE IF ColumnHasNull(b, columns[n]) THEN "fail"
    ELSE NotNullFrom(b, columns, n + 1)

\* DataValidator._check_range: a bound that is None is not looked at.
CheckRange(b, check) ==
    LET below == \E n \in 1..Len(b.rows) :
                    ~IsNull(b.rows[n][check.column]) /\ b.rows[n][check.column][1] < check.min[1]
        above == \E n \in 1..Len(b.rows) :
                    ~IsNull(b.rows[n][check.column]) /\ b.rows[n][check.column][1] > check.max[1]
    IN IF IsNull(check.min) /\ IsNull(check.max) THEN "pass"
       ELSE IF check.column \notin b.cols THEN "raise"
       ELSE IF ~IsNull(check.min) /\ below THEN "fail"
       ELSE IF ~IsNull(check.max) /\ above THEN "fail"
       ELSE "pass"

\* Variant: a type no branch serves counts as a failed check.
CheckOutcomeUnknownFails(b, check) ==
    CASE check.type = "not_null" -> NotNullFrom(b, check.columns, 1)
      [] check.type = "range"    -> CheckRange(b, check)
      [] OTHER                   -> "fail"

\* DataValidator.validate, one turn of its loop: check_result starts True and
\* a type no branch serves leaves it True.
CheckOutcome(b, check) ==
    CASE check.type = "not_null" -> NotNullFrom(b, check.columns, 1)
      [] check.type = "range"    -> CheckRange(b, check)
      [] OTHER                   -> "pass"

NewReport == [passed |-> TRUE, checks |-> <<>>, errors |-> <<>>]

(* ---------------------------- _load_api ------------------------------ *)
\* The destination descriptor's config.get defaults.
DefaultBatchSize == 100
DefaultMethod == "POST"

\* str.upper() on the method names the configurations of this model hold.
Upper(m) ==
    CASE m = "post" -> "POST"
      [] m = "put"  -> "PUT"
      [] OTHER      -> m

MethodOf(dest) == IF IsNull(dest.method) THEN DefaultMethod ELSE dest.method[1]
BatchSizeOf(dest) == IF IsNull(dest.batch_size) THEN DefaultBatchSize ELSE dest.batch_size[1]

Min(a, b) == IF a < b THEN a ELSE b
\* records[i:i + batch_size], i counted from 0.
Slice(records, i, size) == SubSeq(records, i + 1, Min(i + size, Len(records)))

\* Before load is called: no descriptor read, nothing posted.
NoApi == [dest |-> [url |-> Null, method |-> Null, batch_size |-> Null],
          i |-> 0, posted |-> <<>>, statuses |-> <<>>]

(* ------------------- the other scripts, before they run ---------------- *)
\* DatabaseMigration.__init__ and main before migrate_data: nothing migrated,
\* migration_log = [].
NoMig ==
    [pc |-> "idle", route |-> "", batch_size |-> 0, max_workers |-> 0, names |-> <<>>,
     source |-> <<>>, validate |-> FALSE, next |-> 1, awaited |-> 0, completed_tables |-> 0,
     result |-> Null, migration_log |-> <<>>, report |-> Null, exitCode |-> Null]

\* DatabaseBackup before post_backup_process is called.
NoBackup ==
    [pc |-> "idle", compress |-> FALSE, verify_backup |-> FALSE, s3_upload |-> FALSE,
     email_notifications |-> FALSE, backup_file |-> <<>>, files |-> {}, intact |-> {},
     stale |-> {}, events |-> <<>>, result |-> Null]

\* DataSyncManager.__init__: sync_stats at zero, nothing stored in Redis.
NoSync ==
    [pc |-> "idle", source_type |-> "", strategy |-> "", redis |-> FALSE, now |-> 0,
     source |-> <<>>, target |-> <<>>, stored |-> Null, changes |-> <<>>,
     processed |-> 0, synced |-> 0, conflicts |-> 0, errors_before |-> 0, failed |-> {},
     records_synced |-> 0, conflicts_resolved |-> 0, errors |-> 0, last_sync |-> Null,
     runs |-> 0]

(* ------------------------------- state -------------------------------- *)
VARIABLES
    pc,          \* where main / ETLPipeline.run stands
    config,      \* the ETLConfig main built (NoConfig before)
    extracted,   \* what the Extractor returned: Null, or Some(batch)
    df,          \* run's local df
    stepIdx,     \* DataTransformer.transform: index of the next step
    checkIdx,    \* DataValidator.validate: index of the next check
    report,      \* validate's results dictionary
    loadArg,     \* the batch the Loader was called with
    loadResult,  \* what DataLoader.load returned: Null, or Some(boolean)
    written,     \* the destination's content: Null, or Some(batch)
    result,      \* what run returned: Null, or Some(boolean)
    exitCode,    \* the process exit code: Null, or Some(code)
    log,         \* the log records, <<level, message>>
    calls,       \* the stage invocations and their ends, in order
    api,         \* DataLoader._load_api: its configuration, loop index and posts
    mig,         \* db_migration: main and the DatabaseMigration object
    worker,      \* db_migration: one copy loop per requested table / collection
    bak,         \* db_backup: DatabaseBackup.post_backup_process
    sync         \* data_sync: DataSyncManager and its source, target and Redis

vars == <<pc, config, extracted, df, stepIdx, checkIdx, report, loadArg,
          loadResult, written, result, exitCode, log, calls, api,
          mig, worker, bak, sync>>

\* The variables of the other scripts, which the pipeline never touches.
otherVars == <<mig, worker, bak, sync>>

pipelineVars == <<extracted, df, stepIdx, checkIdx, report, loadArg,
                  loadResult, written, result, calls, api, otherVars>>

\* The pipeline's variables, which the other scripts never touch.
etlVars == <<pc, config, extracted, df, stepIdx, checkIdx, report, loadArg,
             loadResult, written, result, exitCode, log, calls, api>>

\* No migration, backup or synchronisation is under way.
OthersIdle == mig = NoMig /\ worker = <<>> /\ bak = NoBackup /\ sync = NoSync

Init ==
    /\ pc = "main"
    /\ config = NoConfig
    /\ extracted = Null
    /\ df = NoBatch
    /\ stepIdx = 1
    /\ checkIdx = 1
    /\ report = NewReport
    /\ loadArg = NoBatch
    /\ loadResult = Null
    /\ written = Null
    /\ result = Null
    /\ exitCode = Null
    /\ log = <<>>
    /\ calls = <<>>
    /\ api = NoApi
    /\ OthersIdle

(* -------------------------------- main -------------------------------- *)
\* sys.exit(0 if success else 1)
ExitCodeAlwaysZero(success) == 0
ExitCodeOf(success) == IF success THEN 0 ELSE 1

\* load_configfrom_file raises (no file, no 'source' section, ...): main's
\* handler logs and exits 1.
MainConfigError ==
    /\ pc = "main"
    /\ pc' = "exited"
    /\ exitCode' = Some(1)
    /\ log' = Append(log, <<"ERROR", "Pipeline execution failed">>)
    /\ UNCHANGED <<config, pipelineVars>>

\* Variant: --dry-run logs and main goes on to build and run the pipeline.
MainDryRunRuns ==
    /\ pc = "main"
    /\ \E c \in Configs : config' = c
    /\ pc' = "run"
    /\ log' = Append(log, <<"INFO", "Configuration validation successful">>)
    /\ UNCHANGED <<exitCode, pipelineVars>>

\* The configuration loads, --source / --target override the two types, and
\* --dry-run returns from main before any pipeline is built.
MainDryRun ==
    /\ pc = "main"
    /\ \E c \in Configs : config' = c
    /\ pc' = "exited"
    /\ exitCode' = Some(0)
    /\ log' = Append(log, <<"INFO", "Configuration validation successful">>)
    /\ UNCHANGED pipelineVars

\* The configuration loads and main builds the pipeline and calls run.
MainRun ==
    /\ pc = "main"
    /\ \E c \in Configs : config' = c
    /\ pc' = "run"
    /\ UNCHANGED <<exitCode, log, pipelineVars>>

\* run returned: sys.exit(0 if success else 1).
MainExit ==
    /\ pc = "returned"
    /\ pc' = "exited"
    /\ exitCode' = Some(ExitCodeOf(result[1]))
    /\ UNCHANGED <<config, log, pipelineVars>>

(* ------------------------- ETLPipeline.run ---------------------------- *)
\* run starts and awaits extractor.extract.
RunExtract ==
    /\ pc = "run"
    /\ pc' = "extracting"
    /\ calls' = Append(calls, "extract")
    /\ log' = log \o << <<"INFO", "Starting ETL pipeline">>, <<"INFO", "Step 1: Data Extraction">> >>
    /\ UNCHANGED <<otherVars, api, config, extracted, df, stepIdx, checkIdx, report, loadArg,
                   loadResult, written, result, exitCode>>

\* run's except clause: log and return False.
RunAborts(stage, message) ==
    /\ pc' = "returned"
    /\ result' = Some(FALSE)
    /\ calls' = Append(calls, stage)
    /\ log' = log \o << <<"ERROR", message>>, <<"ERROR", "ETL pipeline failed">> >>

\* Variant: the failed extraction is tried once more.
ExtractRaiseRetries ==
    /\ pc = "extracting"
    /\ IF \E n \in 1..Len(calls) : calls[n] = "extract.raised"
       THEN RunAborts("extract.raised", "Extraction error")
       ELSE /\ pc' = "run"
            /\ calls' = Append(calls, "extract.raised")
            /\ log' = Append(log, <<"ERROR", "Extraction error">>)
            /\ UNCHANGED result
    /\ UNCHANGED <<otherVars, api, config, extracted, df, stepIdx, checkIdx, report, loadArg,
                   loadResult, written, exitCode>>

\* The extractor raises: a source type no branch serves, or the source fails
\* (no file, no connection, unparsable content). extract logs and re-raises.
ExtractRaise ==
    /\ pc = "extracting"
    /\ RunAborts("extract.raised", "Extraction error")
    /\ UNCHANGED <<otherVars, api, config, extracted, df, stepIdx, checkIdx, report, loadArg,
                   loadResult, written, exitCode>>

\* logger.warning("No data extracted, pipeline stopping")
NoDataAsError == <<"ERROR", "No data extracted, pipeline stopping">>
NoDataRecord == <<"WARNING", "No data extracted, pipeline stopping">>

\* The extractor returns a DataFrame; run stops on an empty one and calls
\* transformer.transform otherwise.
ExtractReturn ==
    /\ pc = "extracting"
    /\ config.source_type \in SupportedSources
    /\ \E b \in SourceBatches :
        /\ extracted' = Some(b)
        /\ df' = b
        /\ IF DfEmpty(b)
           THEN /\ pc' = "returned"
                /\ result' = Some(FALSE)
                /\ calls' = Append(calls, "extract.done")
                /\ log' = Append(log, NoDataRecord)
           ELSE /\ pc' = "transforming"
                /\ result' = result
                /\ calls' = calls \o <<"extract.done", "transform">>
                /\ log' = Append(log, <<"INFO", "Step 2: Data Transformation">>)
    /\ stepIdx' = 1
    /\ UNCHANGED <<otherVars, api, config, checkIdx, report, loadArg, loadResult, written, exitCode>>

KnownStep(t) ==
    t \in {"drop_columns", "rename_columns", "filter_rows", "convert_types",
           "clean_data", "aggregate", "join", "pivot", "custom"}

\* What one turn of the loop logs: the warnings of _convert_types, or the
\* warning of the else branch.
StepLog(b, step) ==
    IF ~KnownStep(step.type) THEN << <<"WARNING", "Unknown transformation type">> >>
    ELSE IF step.type = "convert_types" THEN ConvertWarnings(b, step)
    ELSE <<>>

\* Variant: every step is applied to the extracted frame, not to the frame the
\* step before it returned.
TransformStepOnSource ==
    /\ pc = "transforming"
    /\ stepIdx <= Len(config.transformations)
    /\ ~StepRaises(df, config.transformations[stepIdx])
    /\ df' = ApplyStep(extracted[1], config.transformations[stepIdx])
    /\ stepIdx' = stepIdx + 1
    /\ log' = log
    /\ UNCHANGED <<otherVars, api, pc, config, extracted, checkIdx, report, loadArg, loadResult,
                   written, result, exitCode, calls>>

\* One turn of transform's loop that ends normally.
TransformStep ==
    /\ pc = "transforming"
    /\ stepIdx <= Len(config.transformations)
    /\ ~StepRaises(df, config.transformations[stepIdx])
    /\ df' = ApplyStep(df, config.transformations[stepIdx])
    /\ stepIdx' = stepIdx + 1
    /\ log' = log \o StepLog(df, config.transformations[stepIdx])
    /\ UNCHANGED <<otherVars, api, pc, config, extracted, checkIdx, report, loadArg, loadResult,
                   written, result, exitCode, calls>>

\* Variant: the step's error is logged and the run goes on to validation.
TransformRaiseSwallowed ==
    /\ pc = "transforming"
    /\ stepIdx <= Len(config.transformations)
    /\ StepRaises(df, config.transformations[stepIdx])
    /\ pc' = "validating"
    /\ checkIdx' = 1
    /\ report' = NewReport
    /\ calls' = calls \o <<"transform.raised", "validate">>
    /\ log' = Append(log, <<"ERROR", "Transformation error">>)
    /\ UNCHANGED <<otherVars, api, config, extracted, df, stepIdx, loadArg, loadResult, written,
                   result, exitCode>>

\* One turn of transform's loop that raises: transform logs and re-raises,
\* run's handler returns False.
TransformRaise ==
    /\ pc = "transforming"
    /\ stepIdx <= Len(config.transformations)
    /\ StepRaises(df, config.transformations[stepIdx])
    /\ RunAborts("transform.raised", "Transformation error")
    /\ UNCHANGED <<otherVars, api, config, extracted, df, stepIdx, checkIdx, report, loadArg,
                   loadResult, written, exitCode>>

\* Variant: run loads right after the transformation.
TransformReturnToLoad ==
    /\ pc = "transforming"
    /\ stepIdx > Len(config.transformations)
    /\ pc' = "loading"
    /\ loadArg' = df
    /\ calls' = calls \o <<"transform.done", "load">>
    /\ log' = log \o << <<"INFO", "Transformation completed">>, <<"INFO", "Step 4: Data Loading">> >>
    /\ UNCHANGED <<otherVars, api, config, extracted, df, stepIdx, checkIdx, report, loadResult,
                   written, result, exitCode>>

\* transform's loop is over: it returns df and run calls validator.validate.
TransformReturn ==
    /\ pc = "transforming"
    /\ stepIdx > Len(config.transformations)
    /\ pc' = "validating"
    /\ checkIdx' = 1
    /\ report' = NewReport
    /\ calls' = calls \o <<"transform.done", "validate">>
    /\ log' = log \o << <<"INFO", "Transformation completed">>, <<"INFO", "Step 3: Data Validation">> >>
    /\ UNCHANGED <<otherVars, api, config, extracted, df, stepIdx, loadArg, loadResult, written,
                   result, exitCode>>

\* One turn of validate's loop that ends normally: the result is recorded, a
\* failed check clears 'passed' and adds an error.
ValidateCheck ==
    /\ pc = "validating"
    /\ checkIdx <= Len(config.checks)
    /\ LET check == config.checks[checkIdx]
           outcome == CheckOutcome(df, check)
       IN /\ outcome # "raise"
          /\ report' = [passed |-> report.passed /\ outcome = "pass",
                        checks |-> Append(report.checks, [type |-> check.type, passed |-> outcome = "pass"]),
                        errors |-> IF outcome = "pass" THEN report.errors
                                   ELSE Append(report.errors, "Validation failed")]
    /\ checkIdx' = checkIdx + 1
    /\ UNCHANGED <<otherVars, api, pc, config, extracted, df, stepIdx, loadArg, loadResult, written,
                   result, exitCode, log, calls>>

\* Variant: the handler clears 'passed' and lists no error.
ValidateRaiseListsNothing ==
    /\ pc = "validating"
    /\ checkIdx <= Len(config.checks)
    /\ CheckOutcome(df, config.checks[checkIdx]) = "raise"
    /\ report' = [report EXCEPT !.passed = FALSE]
    /\ pc' = "validated"
    /\ calls' = Append(calls, "validate.done")
    /\ log' = Append(log, <<"ERROR", "Validation error">>)
    /\ UNCHANGED <<otherVars, api, config, extracted, df, stepIdx, checkIdx, loadArg, loadResult,
                   written, result, exitCode>>

\* One turn of validate's loop that raises: validate's handler clears
\* 'passed', adds the error and returns the results gathered so far.
ValidateRaise ==
    /\ pc = "validating"
    /\ checkIdx <= Len(config.checks)
    /\ CheckOutcome(df, config.checks[checkIdx]) = "raise"
    /\ report' = [report EXCEPT !.passed = FALSE, !.errors = Append(@, "KeyError")]
    /\ pc' = "validated"
    /\ calls' = Append(calls, "validate.done")
    /\ log' = Append(log, <<"ERROR", "Validation error">>)
    /\ UNCHANGED <<otherVars, api, config, extracted, df, stepIdx, checkIdx, loadArg, loadResult,
                   written, result, exitCode>>

\* validate's loop is over: it returns the results.
ValidateReturn ==
    /\ pc = "validating"
    /\ checkIdx > Len(config.checks)
    /\ pc' = "validated"
    /\ calls' = Append(calls, "validate.done")
    /\ log' = Append(log, <<"INFO", "Data validation completed">>)
    /\ UNCHANGED <<otherVars, api, config, extracted, df, stepIdx, checkIdx, report, loadArg,
                   loadResult, written, result, exitCode>>

\* pipeline_config.get('stop_on_validation_error', True)
StopDefaultsFalse(cfg) ==
    IF IsNull(cfg.stop_on_validation_error) THEN FALSE ELSE cfg.stop_on_validation_error[1]
StopAlways(cfg) == TRUE
StopOnValidationError(cfg) ==
    IF IsNull(cfg.stop_on_validation_error) THEN TRUE ELSE cfg.stop_on_validation_error[1]

\* run looks at the report: a failed one is logged and, under the stop
\* policy, ends the run; otherwise run awaits loader.load.
RunGate ==
    /\ pc = "validated"
    /\ IF ~report.passed /\ StopOnValidationError(config)
       THEN /\ pc' = "returned"
            /\ result' = Some(FALSE)
            /\ log' = Append(log, <<"ERROR", "Data validation failed">>)
            /\ UNCHANGED <<loadArg, calls>>
       ELSE /\ pc' = "loading"
            /\ loadArg' = df
            /\ calls' = Append(calls, "load")
            /\ log' = (IF report.passed THEN log ELSE Append(log, <<"ERROR", "Data validation failed">>))
                      \o << <<"INFO", "Step 4: Data Loading">> >>
            /\ UNCHANGED result
    /\ UNCHANGED <<otherVars, api, config, extracted, df, stepIdx, checkIdx, report, loadResult,
                   written, exitCode>>

\* DataLoader.load: True from the kind's loader, False from the handler when
\* it raised.
LoaderSwallows(raised) == TRUE
LoaderResult(raised) == ~raised

\* The Loader ends: a destination type no branch serves raises, a served one
\* writes the batch or raises; run returns what load returned.
LoadReturn ==
    /\ pc = "loading"
    /\ \E fails \in BOOLEAN :
        LET raised == fails \/ config.destination_type \notin SupportedDestinations
            success == LoaderResult(raised)
        IN /\ written' = IF raised THEN written ELSE Some(loadArg)
           /\ loadResult' = Some(success)
           /\ result' = Some(success)
           /\ calls' = Append(calls, "load.done")
           /\ log' = log \o (IF raised THEN << <<"ERROR", "Loading error">> >> ELSE <<>>)
                         \o (IF success THEN << <<"INFO", "ETL pipeline completed successfully">> >>
                             ELSE << <<"ERROR", "Data loading failed">> >>)
    /\ pc' = "returned"
    /\ UNCHANGED <<otherVars, api, config, extracted, df, stepIdx, checkIdx, report, loadArg, exitCode>>

Next ==
    \/ MainConfigError
    \/ MainDryRun
    \/ MainRun
    \/ MainExit
    \/ RunExtract
    \/ ExtractRaise
    \/ ExtractReturn
    \/ TransformStep
    \/ TransformRaise
    \/ TransformReturn
    \/ ValidateCheck
    \/ ValidateRaise
    \/ ValidateReturn
    \/ RunGate
    \/ LoadReturn

Spec == Init /\ [][Next]_vars

\* A run is straight-line code: as long as every stage call returns, the next
\* statement is executed.
FairSpec == Spec /\ WF_vars(Next)

(* --------------------- DataLoader.load to an API ---------------------- *)
\* The descriptors and frames load is called with, and the statuses the
\* endpoint answers with.
Methods == {Null, Some("POST"), Some("post"), Some("PUT")}
BatchSizes == {Null} \cup {Some(n) : n \in 0..MaxBatchSize}
ApiDestinations ==
    [url : {Some("endpoint")}, method : Methods, batch_size : BatchSizes]
        \cup {[url |-> Null, method |-> Null, batch_size |-> Null]}
ApiFrames ==
    {[cols |-> {"id"}, rows |-> r] :
        r \in SeqsUpTo({[c \in {"id"} |-> Some(n)] : n \in 1..2}, MaxApiRows)}
Statuses == {200, 201, 500}

ApiInit ==
    /\ pc = "api"
    /\ config = [NoConfig EXCEPT !.source_type = "csv", !.destination_type = "api"]
    /\ extracted = Null
    /\ df = NoBatch
    /\ stepIdx = 1
    /\ checkIdx = 1
    /\ report = NewReport
    /\ \E b \in ApiFrames : loadArg = b
    /\ loadResult = Null
    /\ written = Null
    /\ result = Null
    /\ exitCode = Null
    /\ log = <<>>
    /\ calls = <<"load">>
    /\ \E d \in ApiDestinations : api = [NoApi EXCEPT !.dest = d]
    /\ OthersIdle

\* load's handler: whatever _load_api raises is logged and load returns False.
\* config['url'] raises KeyError without a url, range() raises ValueError for
\* a step of 0, session.post raises when the endpoint cannot be reached.
ApiRaise ==
    /\ pc = "api"
    /\ IF IsNull(api.dest.url) \/ BatchSizeOf(api.dest) = 0 THEN TRUE
       ELSE api.i < Len(loadArg.rows) /\ Upper(MethodOf(api.dest)) = "POST"
    /\ pc' = "api.done"
    /\ loadResult' = Some(FALSE)
    /\ log' = Append(log, <<"ERROR", "Loading error">>)
    /\ calls' = Append(calls, "load.done")
    /\ UNCHANGED <<otherVars, api, config, extracted, df, stepIdx, checkIdx, report, loadArg,
                   written, result, exitCode>>

\* One turn of the loop with method POST: the slice is posted; any status
\* other than 200 ends the call with False.
ApiPost ==
    /\ pc = "api"
    /\ ~IsNull(api.dest.url) /\ BatchSizeOf(api.dest) > 0
    /\ api.i < Len(loadArg.rows)
    /\ Upper(MethodOf(api.dest)) = "POST"
    /\ \E status \in Statuses :
        /\ api' = [api EXCEPT !.posted = Append(@, Slice(loadArg.rows, api.i, BatchSizeOf(api.dest))),
                              !.statuses = Append(@, status),
                              !.i = IF status # 200 THEN @ ELSE @ + BatchSizeOf(api.dest)]
        /\ IF status # 200
           THEN /\ pc' = "api.done"
                /\ loadResult' = Some(FALSE)
                /\ log' = Append(log, <<"ERROR", "API loading failed">>)
                /\ calls' = Append(calls, "load.done")
           ELSE UNCHANGED <<pc, loadResult, log, calls>>
    /\ UNCHANGED <<otherVars, config, extracted, df, stepIdx, checkIdx, report, loadArg,
                   written, result, exitCode>>

\* One turn of the loop with any other method: the slice is taken and
\* nothing is done with it.
ApiPass ==
    /\ pc = "api"
    /\ ~IsNull(api.dest.url) /\ BatchSizeOf(api.dest) > 0
    /\ api.i < Len(loadArg.rows)
    /\ Upper(MethodOf(api.dest)) # "POST"
    /\ api' = [api EXCEPT !.i = @ + BatchSizeOf(api.dest)]
    /\ UNCHANGED <<otherVars, pc, config, extracted, df, stepIdx, checkIdx, report, loadArg,
                   loadResult, written, result, exitCode, log, calls>>

\* The loop is over: "API loading completed", return True.
ApiReturn ==
    /\ pc = "api"
    /\ ~IsNull(api.dest.url) /\ BatchSizeOf(api.dest) > 0
    /\ api.i >= Len(loadArg.rows)
    /\ pc' = "api.done"
    /\ loadResult' = Some(TRUE)
    /\ log' = Append(log, <<"INFO", "API loading completed">>)
    /\ calls' = Append(calls, "load.done")
    /\ UNCHANGED <<otherVars, api, config, extracted, df, stepIdx, checkIdx, report, loadArg,
                   written, result, exitCode>>

ApiNext == ApiRaise \/ ApiPost \/ ApiPass \/ ApiReturn

ApiSpec == ApiInit /\ [][ApiNext]_vars

(* ------------------------- db_migration.py ----------------------------- *)
\* The idle state of the pipeline, for the specifications of the other
\* scripts.
PipelineIdle ==
    /\ pc = "main"
    /\ config = NoConfig
    /\ extracted = Null
    /\ df = NoBatch
    /\ stepIdx = 1
    /\ checkIdx = 1
    /\ report = NewReport
    /\ loadArg = NoBatch
    /\ loadResult = Null
    /\ written = Null
    /\ result = Null
    /\ exitCode = Null
    /\ log = <<>>
    /\ calls = <<>>
    /\ api = NoApi

\* migrate_data's dispatch on the two database types.
Routes == {"sql_to_sql", "mongodb_to_sql", "sql_to_mongodb"}
Threaded(route) == route = "sql_to_sql"
TableNames == {"users", "orders"}
\* --tables, or nothing: `tables or inspector.get_table_names()`.
AllTables == <<"users", "orders">>
Requested == {<<>>, <<"users">>, <<"orders", "users">>}
Resolve(tables) == IF tables = <<>> THEN AllTables ELSE tables

\* Variant: the offset is taken as the number of the row before the first one
\* wanted, counted from 0.
PageSkipsOne(n, offset, limit) ==
    IF offset + 1 >= n THEN <<>>
    ELSE [i \in 1..Min(limit, n - offset - 1) |-> offset + 1 + i]

\* LIMIT batch_size OFFSET offset over a table of n rows in a stable order
\* (rows are numbered 1..n); skip / limit of a cursor likewise.
Page(n, offset, limit) ==
    IF offset >= n THEN <<>>
    ELSE [i \in 1..Min(limit, n - offset) |-> offset + i]

\* A copy loop before its first statement.
NewWorker ==
    [pc |-> "queued", handle |-> Null, total |-> 0, offset |-> 0, migrated_rows |-> 0,
     df |-> <<>>, reads |-> <<>>, progress |-> <<>>, written |-> <<>>, result |-> Null]

\* pymongo's limit(0) means no limit, so the cursor route is given batch
\* sizes from 1; the SQL routes also run with batch size 0.
MigrateInit ==
    /\ PipelineIdle
    /\ bak = NoBackup
    /\ sync = NoSync
    /\ \E route \in Routes, size \in 0..MaxPage, workers \in {1, 2}, tables \in Requested,
          source \in [TableNames -> 0..MaxTableRows], validate \in BOOLEAN :
        /\ route = "mongodb_to_sql" => size >= 1
        /\ mig = [NoMig EXCEPT !.pc = "migrate", !.route = route, !.batch_size = size,
                               !.max_workers = workers, !.names = Resolve(tables),
                               !.source = source, !.validate = validate]
        /\ worker = [k \in 1..Len(Resolve(tables)) |-> NewWorker]

Running == {k \in 1..Len(worker) : worker[k].pc \notin {"queued", "returned"}}

\* executor.submit(self._migrate_table, table_name): one future per table.
Submit ==
    /\ mig.pc = "migrate" /\ Threaded(mig.route)
    /\ mig.next <= Len(mig.names)
    /\ mig' = [mig EXCEPT !.next = @ + 1]
    /\ UNCHANGED <<etlVars, worker, bak, sync>>

\* A copy loop starts: a pool thread takes a submitted table, or the
\* sequential for loop reaches the next collection / table.  Its first
\* statement is the count on self.source_conn.
MayStart(k) ==
    IF Threaded(mig.route)
    THEN k < mig.next /\ Cardinality(Running) < mig.max_workers
    ELSE Running = {} /\ \A j \in 1..(k - 1) : worker[j].result = Some(TRUE)

WorkerStart(k) ==
    /\ mig.pc = "migrate"
    /\ worker[k].pc = "queued"
    /\ MayStart(k)
    /\ worker' = [worker EXCEPT ![k].pc = "counting", ![k].handle = Some("source_conn")]
    /\ UNCHANGED <<etlVars, mig, bak, sync>>

\* The count returns: an empty table is skipped with True.
CountReturn(k) ==
    /\ worker[k].pc = "counting"
    /\ LET total == mig.source[mig.names[k]]
       IN worker' = [worker EXCEPT ![k].total = total, ![k].handle = Null,
                                   ![k].pc = IF total = 0 THEN "returned" ELSE "loop",
                                   ![k].result = IF total = 0 THEN Some(TRUE) ELSE Null]
    /\ UNCHANGED <<etlVars, mig, bak, sync>>

\* while offset < total_rows: the page is read through self.source_conn.
ReadBegin(k) ==
    /\ worker[k].pc = "loop"
    /\ worker[k].offset < worker[k].total
    /\ worker' = [worker EXCEPT ![k].pc = "reading", ![k].handle = Some("source_conn"),
                                ![k].reads = Append(@, worker[k].offset)]
    /\ UNCHANGED <<etlVars, mig, bak, sync>>

\* The loop condition fails: "Completed migration", return True.
LoopEnd(k) ==
    /\ worker[k].pc = "loop"
    /\ worker[k].offset >= worker[k].total
    /\ worker' = [worker EXCEPT ![k].pc = "returned", ![k].result = Some(TRUE)]
    /\ UNCHANGED <<etlVars, mig, bak, sync>>

\* The page is there: an empty one breaks out of the loop, any other is
\* transformed and handed to to_sql / insert_many on self.target_conn.
ReadReturn(k) ==
    /\ worker[k].pc = "reading"
    /\ LET page == Page(worker[k].total, worker[k].offset, mig.batch_size)
       IN worker' = IF page = <<>>
                    THEN [worker EXCEPT ![k].pc = "returned", ![k].handle = Null,
                                        ![k].result = Some(TRUE)]
                    ELSE [worker EXCEPT ![k].pc = "writing", ![k].df = page,
                                        ![k].handle = Some("target_conn")]
    /\ UNCHANGED <<etlVars, mig, bak, sync>>

\* What the progress line reports: _migrate_table counts the rows it wrote,
\* the two sequential loops print their skip / offset.
Reported(w, route) == IF Threaded(route) THEN w.migrated_rows ELSE w.offset

\* Variant: the offset advances by one row, whatever the batch size.
WriteReturnAdvancesOne(k) ==
    /\ worker[k].pc = "writing"
    /\ LET w == [worker[k] EXCEPT !.written = @ \o worker[k].df,
                                  !.migrated_rows = IF Threaded(mig.route) THEN @ + Len(worker[k].df) ELSE @,
                                  !.offset = @ + 1,
                                  !.pc = "loop", !.handle = Null]
       IN worker' = [worker EXCEPT ![k] = [w EXCEPT !.progress = Append(@, Reported(w, mig.route))]]
    /\ UNCHANGED <<etlVars, mig, bak, sync>>

\* The write returns: the counters advance and the progress line is logged.
WriteReturn(k) ==
    /\ worker[k].pc = "writing"
    /\ LET w == [worker[k] EXCEPT !.written = @ \o worker[k].df,
                                  !.migrated_rows = IF Threaded(mig.route) THEN @ + Len(worker[k].df) ELSE @,
                                  !.offset = @ + mig.batch_size,
                                  !.pc = "loop", !.handle = Null]
       IN worker' = [worker EXCEPT ![k] = [w EXCEPT !.progress = Append(@, Reported(w, mig.route))]]
    /\ UNCHANGED <<etlVars, mig, bak, sync>>

\* Any of the three calls raises: the handler logs and returns False.
WorkerRaise(k) ==
    /\ worker[k].pc \in {"counting", "reading", "writing"}
    /\ worker' = [worker EXCEPT ![k].pc = "returned", ![k].handle = Null,
                                ![k].result = Some(FALSE)]
    /\ UNCHANGED <<etlVars, mig, bak, sync>>

\* future.result() of the next future in submission order.
Await ==
    /\ mig.pc = "migrate" /\ Threaded(mig.route)
    /\ mig.next > Len(mig.names)
    /\ mig.awaited < Len(mig.names)
    /\ worker[mig.awaited + 1].pc = "returned"
    /\ mig' = [mig EXCEPT !.awaited = @ + 1,
                          !.completed_tables = IF worker[mig.awaited + 1].result = Some(TRUE)
                                               THEN @ + 1 ELSE @]
    /\ UNCHANGED <<etlVars, worker, bak, sync>>

\* return completed_tables == total_tables
AnyCompleted(completed, total) == completed > 0
AllCompleted(completed, total) == completed = total

\* main after migrate_data: a False is "Data migration failed" and exit 1.
Migrated(success) ==
    mig' = [mig EXCEPT !.result = Some(success),
                       !.pc = IF success THEN "migrated" ELSE "exited",
                       !.exitCode = IF success THEN Null ELSE Some(1)]

\* The with block is left (every future done) and _migrate_sql_to_sql returns.
ThreadedReturn ==
    /\ mig.pc = "migrate" /\ Threaded(mig.route)
    /\ mig.awaited = Len(mig.names)
    /\ Migrated(AllCompleted(mig.completed_tables, Len(mig.names)))
    /\ UNCHANGED <<etlVars, worker, bak, sync>>

\* The sequential routes: return False at the first loop that raised, True
\* after the last one.
SequentialReturn ==
    /\ mig.pc = "migrate" /\ ~Threaded(mig.route)
    /\ Running = {}
    /\ \/ /\ \E k \in 1..Len(worker) : worker[k].result = Some(FALSE)
          /\ Migrated(FALSE)
       \/ /\ \A k \in 1..Len(worker) : worker[k].result = Some(TRUE)
          /\ Migrated(TRUE)
    /\ UNCHANGED <<etlVars, worker, bak, sync>>

\* inspect(self.source_conn) or list_collection_names raises before any
\* table is taken up: migrate_data's handler returns False.
MigrateRaise ==
    /\ mig.pc = "migrate"
    /\ mig.next = 1 /\ \A k \in 1..Len(worker) : worker[k].pc = "queued"
    /\ Migrated(FALSE)
    /\ UNCHANGED <<etlVars, worker, bak, sync>>

\* --validate: validate_migration compares the two databases; a False is
\* "Migration validation failed" and exit 1.
MainValidate ==
    /\ mig.pc = "migrated" /\ mig.validate
    /\ \E ok \in BOOLEAN :
        mig' = [mig EXCEPT !.pc = IF ok THEN "validated" ELSE "exited",
                           !.exitCode = IF ok THEN Null ELSE Some(1)]
    /\ UNCHANGED <<etlVars, worker, bak, sync>>

\* generate_migration_report: status and total_tables come from
\* self.migration_log.
ReportStatus(migration_log) == IF migration_log # <<>> THEN "completed" ELSE "failed"

MainReport ==
    /\ \/ mig.pc = "migrated" /\ ~mig.validate
       \/ mig.pc = "validated"
    /\ mig' = [mig EXCEPT !.report = Some([status |-> ReportStatus(mig.migration_log),
                                           total_tables |-> Len(mig.migration_log)]),
                          !.pc = "exited", !.exitCode = Some(0)]
    /\ UNCHANGED <<etlVars, worker, bak, sync>>

MigrateNext ==
    \/ Submit
    \/ \E k \in 1..Len(worker) : WorkerStart(k)
    \/ \E k \in 1..Len(worker) : CountReturn(k)
    \/ \E k \in 1..Len(worker) : ReadBegin(k)
    \/ \E k \in 1..Len(worker) : LoopEnd(k)
    \/ \E k \in 1..Len(worker) : ReadReturn(k)
    \/ \E k \in 1..Len(worker) : WriteReturn(k)
    \/ \E k \in 1..Len(worker) : WorkerRaise(k)
    \/ Await
    \/ ThreadedReturn
    \/ SequentialReturn
    \/ MigrateRaise
    \/ MainValidate
    \/ MainReport

MigrateSpec == MigrateInit /\ [][MigrateNext]_vars

\* Threads run and calls return: whatever can take a step eventually does.
MigrateFairSpec == MigrateSpec /\ WF_vars(MigrateNext)

(* --------------------------- db_backup.py ------------------------------ *)
\* DatabaseBackup.post_backup_process, called with the file a backup_* method
\* has just written.  A file name is the sequence of its dot-separated parts.
\* compress_file, verify_backup, upload_to_s3, cleanup_old_backups and
\* send_notification each catch their own exceptions, so the handler's own
\* except branch has nothing to catch.
BackupFiles == {<<"postgresql", "sql">>, <<"sqlite", "db">>, <<"mongodb", "tar", "gz">>}

OldBackup == <<"old", "sql", "gz">>

\* str(backup_file).endswith('.gz')
EndsWithGz(file) == Len(file) > 0 /\ file[Len(file)] = "gz"

\* Path(f"{file_path}.gz")
CompressedPath(file) == Append(file, "gz")

\* verify_backup: the file exists, is not empty and, when gzipped, reads back.
VerifyBackup(b, file) == file \in b.files /\ file \in b.intact

Event(op, file, ok) == [op |-> op, file |-> file, ok |-> ok]

BackupInit ==
    /\ PipelineIdle
    /\ mig = NoMig /\ worker = <<>> /\ sync = NoSync
    /\ \E compress \in BOOLEAN, verify \in BOOLEAN, upload \in BOOLEAN, email \in BOOLEAN,
          file \in BackupFiles, sound \in BOOLEAN, old \in BOOLEAN :
          bak = [pc |-> "compress", compress |-> compress, verify_backup |-> verify,
                 s3_upload |-> upload, email_notifications |-> email,
                 backup_file |-> file,
                 files |-> {file} \cup (IF old THEN {OldBackup} ELSE {}),
                 intact |-> IF sound THEN {file} ELSE {},
                 stale |-> IF old THEN {OldBackup} ELSE {},
                 events |-> <<>>, result |-> Null]

\* 211-214: compress unless disabled or already a .gz; compress_file returns
\* the new path (the original removed) or None, and None keeps backup_file.
Compress ==
    /\ bak.pc = "compress"
    /\ IF bak.compress /\ ~EndsWithGz(bak.backup_file)
       THEN \E ok \in BOOLEAN, readable \in BOOLEAN :
               LET gz == CompressedPath(bak.backup_file) IN
               bak' = [bak EXCEPT
                         !.pc = "verify",
                         !.backup_file = IF ok THEN gz ELSE @,
                         !.files = IF ok THEN (@ \ {bak.backup_file}) \cup {gz} ELSE @,
                         !.intact = IF ok /\ readable /\ bak.backup_file \in @
                                    THEN (@ \ {bak.backup_file}) \cup {gz}
                                    ELSE @ \ {gz},
                         !.events = Append(@, Event("compress", bak.backup_file, ok))]
       ELSE bak' = [bak EXCEPT !.pc = "verify"]
    /\ UNCHANGED <<etlVars, mig, worker, sync>>

\* A variant of Verify that logs a failed verification and carries on.
VerifyIgnored ==
    /\ bak.pc = "verify"
    /\ IF bak.verify_backup
       THEN bak' = [bak EXCEPT
                      !.pc = "upload",
                      !.events = Append(@, Event("verify", bak.backup_file,
                                                 VerifyBackup(bak, bak.backup_file)))]
       ELSE bak' = [bak EXCEPT !.pc = "upload"]
    /\ UNCHANGED <<etlVars, mig, worker, sync>>

\* 217-220: a failed verification returns False.
Verify ==
    /\ bak.pc = "verify"
    /\ IF bak.verify_backup
       THEN LET ok == VerifyBackup(bak, bak.backup_file) IN
            bak' = [bak EXCEPT
                      !.pc = IF ok THEN "upload" ELSE "returned",
                      !.result = IF ok THEN @ ELSE Some(FALSE),
                      !.events = Append(@, Event("verify", bak.backup_file, ok))]
       ELSE bak' = [bak EXCEPT !.pc = "upload"]
    /\ UNCHANGED <<etlVars, mig, worker, sync>>

\* 223-226: a failed upload returns False.
Upload ==
    /\ bak.pc = "upload"
    /\ IF bak.s3_upload
       THEN \E ok \in BOOLEAN :
               bak' = [bak EXCEPT
                         !.pc = IF ok THEN "cleanup" ELSE "returned",
                         !.result = IF ok THEN @ ELSE Some(FALSE),
                         !.events = Append(@, Event("upload", bak.backup_file, ok))]
       ELSE bak' = [bak EXCEPT !.pc = "cleanup"]
    /\ UNCHANGED <<etlVars, mig, worker, sync>>

\* 229: cleanup_old_backups unlinks the files older than the retention
\* period, or logs its own error and removes nothing.
Cleanup ==
    /\ bak.pc = "cleanup"
    /\ \E ok \in BOOLEAN :
          bak' = [bak EXCEPT
                    !.pc = "notify",
                    !.files = IF ok THEN @ \ bak.stale ELSE @,
                    !.intact = IF ok THEN @ \ bak.stale ELSE @,
                    !.events = Append(@, Event("cleanup", bak.backup_file, ok))]
    /\ UNCHANGED <<etlVars, mig, worker, sync>>

\* 232-236: the notification, when enabled, and return True.
BackupReturn ==
    /\ bak.pc = "notify"
    /\ bak' = [bak EXCEPT
                 !.pc = "returned",
                 !.result = Some(TRUE),
                 !.events = IF bak.email_notifications
                            THEN Append(@, Event("notify", bak.backup_file, TRUE))
                            ELSE @]
    /\ UNCHANGED <<etlVars, mig, worker, sync>>

BackupNext ==
    \/ Compress
    \/ Verify
    \/ Upload
    \/ Cleanup
    \/ BackupReturn

BackupSpec == BackupInit /\ [][BackupNext]_vars

(* ---------------------------- data_sync.py ------------------------------ *)
\* DataSyncManager.sync_table on one table.  A source row is its primary key
\* and its updated_at instant (0: the row does not exist yet); the target keeps,
\* per key, the versions appended to it, oldest first.
SyncSourceTypes == {"postgresql", "mongodb"}

Strategies == {"source_wins", "target_wins", "merge"}

RecordIds == 1..MaxRecords

\* detect_database_changes: the rows updated after last_sync_time, or the whole
\* table when there is none.
DetectChanges(source, last_sync_time) ==
    LET rows == [i \in RecordIds |-> <<i, source[i]>>]
        Changed(r) == /\ r[2] > 0
                      /\ last_sync_time # Null => r[2] > last_sync_time[1]
    IN SelectSeq(rows, Changed)

\* _get_last_sync_time: the stored time, None without Redis.
GetLastSyncTime(m) == IF m.redis THEN m.stored ELSE Null

\* _get_target_record: the first target row with the record's key.
GetTargetRecord(target, record) ==
    IF target[record[1]] = <<>> THEN Null ELSE Some(<<record[1], target[record[1]][1]>>)

\* ConflictResolver.resolve_conflict; merge takes the source's non-null values,
\* and no value of these rows is null.
ResolveConflict(strategy, source_record, target_record) ==
    IF strategy = "target_wins" THEN target_record ELSE source_record

SyncInit ==
    /\ PipelineIdle
    /\ mig = NoMig /\ worker = <<>> /\ bak = NoBackup
    /\ \E type \in SyncSourceTypes, strategy \in Strategies, redis \in BOOLEAN,
          source \in [RecordIds -> 0..1] :
          sync = [NoSync EXCEPT !.source_type = type, !.strategy = strategy,
                                !.redis = redis, !.now = 1, !.source = source,
                                !.target = [i \in RecordIds |-> <<>>]]

\* The application writes a row of the source table: the clock moves on and
\* the row's updated_at is the new instant.
SourceUpdate ==
    /\ sync.pc \in {"idle", "processing"}
    /\ sync.now < MaxClock
    /\ \E i \in RecordIds :
          sync' = [sync EXCEPT !.now = @ + 1, !.source[i] = sync.now + 1]
    /\ UNCHANGED <<etlVars, mig, worker, bak>>

\* 262-285: read the last sync time and detect the changes; a failed query
\* gives no changes, and with no changes sync_table returns.
SyncStart ==
    /\ sync.pc = "idle"
    /\ sync.runs < MaxSyncs
    /\ \E ok \in BOOLEAN :
          LET changes == IF sync.source_type = "postgresql" /\ ok
                         THEN DetectChanges(sync.source, GetLastSyncTime(sync))
                         ELSE <<>>
          IN sync' = [sync EXCEPT
                        !.pc = IF changes = <<>> THEN "idle" ELSE "processing",
                        !.runs = @ + 1,
                        !.changes = changes,
                        !.processed = Len(changes),
                        !.synced = 0,
                        !.conflicts = 0,
                        !.errors_before = sync.errors]
    /\ UNCHANGED <<etlVars, mig, worker, bak>>

\* 287-307: one record of the loop; a failed write is logged and counted.
SyncRecord ==
    /\ sync.pc = "processing"
    /\ sync.changes # <<>>
    /\ LET record == Head(sync.changes)
           existing == GetTargetRecord(sync.target, record)
           resolved == IF existing = Null THEN record
                       ELSE ResolveConflict(sync.strategy, record, existing[1])
       IN \E ok \in BOOLEAN :
             sync' = [sync EXCEPT
                        !.changes = Tail(@),
                        !.conflicts = IF existing = Null THEN @ ELSE @ + 1,
                        !.target[record[1]] = IF ok THEN Append(@, resolved[2]) ELSE @,
                        !.synced = IF ok THEN @ + 1 ELSE @,
                        !.errors = IF ok THEN @ ELSE @ + 1,
                        !.failed = IF ok THEN @ ELSE @ \cup {record}]
    /\ UNCHANGED <<etlVars, mig, worker, bak>>

\* 309-317: the statistics, and _update_last_sync_time stores the present
\* instant when Redis is connected (a failed set is only a warning).
SyncFinish ==
    /\ sync.pc = "processing"
    /\ sync.changes = <<>>
    /\ \E set \in BOOLEAN :
          sync' = [sync EXCEPT
                     !.pc = "idle",
                     !.records_synced = @ + sync.synced,
                     !.conflicts_resolved = @ + sync.conflicts,
                     !.last_sync = Some(sync.now),
                     !.stored = IF sync.redis /\ set THEN Some(sync.now) ELSE @]
    /\ UNCHANGED <<etlVars, mig, worker, bak>>

SyncNext ==
    \/ SourceUpdate
    \/ SyncStart
    \/ SyncRecord
    \/ SyncFinish

SyncSpec == SyncInit /\ [][SyncNext]_vars

(* ------------------ DataTransformer.transform on its own --------------- *)
\* The frames and step lists transform is called with here: `extracted' is
\* the frame handed in, `df' the frame the loop works on.
AgeCells == {Null, Some(15), Some(18), Some(22)}
AgeFrames ==
    {[cols |-> {"age"}, rows |-> r] :
        r \in SeqsUpTo({[c \in {"age"} |-> a] : a \in AgeCells}, MaxFrameRows)}

Operators == {"==", "!=", ">", "<", ">=", "<="}
ScalarConditions == {[column |-> "age", operator |-> o, value |-> 18] : o \in Operators}
ListConditions == {[column |-> "age", operator |-> o, value |-> {18, 22}] : o \in {"in", "not_in"}}
\* An operator no branch of _filter_rows serves, and a column no frame has.
OddConditions ==
    {[column |-> "age", operator |-> "between", value |-> 18],
     [column |-> "height", operator |-> ">=", value |-> 18]}
ConditionLists ==
    SeqsUpTo(ScalarConditions, MaxConds) \cup SeqsUpTo(ListConditions, MaxConds)
        \cup {<<a, b>> : a \in ScalarConditions, b \in ListConditions}
        \cup {<<b, a>> : a \in ScalarConditions, b \in ListConditions}
        \cup {<<a>> : a \in OddConditions}
        \cup {<<a, b>> : a \in OddConditions, b \in ScalarConditions}
        \cup {<<b, a>> : a \in OddConditions, b \in ScalarConditions}
FilterSteps == {<<[type |-> "filter_rows", conditions |-> c]>> : c \in ConditionLists}

NameCells ==
    {Null, Str(<<" ", "B", "o", "b", " ">>), Str(<<"B", "o", "b">>), Str(<<"A", "n", "n">>)}
NameFrames ==
    {[cols |-> {"id", "name"}, rows |-> r] :
        r \in SeqsUpTo({[c \in {"id", "name"} |-> IF c = "id" THEN Some(1) ELSE n] : n \in NameCells},
                       MaxCleanRows)}
CleanOperations ==
    {[remove_duplicates |-> d, handle_nulls |-> h, fill_value |-> f, trim_strings |-> t] :
        d \in BOOLEAN, t \in BOOLEAN,
        h \in {Null, Some("fill")}, f \in {Some(Str(<<"B", "o", "b">>))}}
        \cup {[remove_duplicates |-> FALSE, handle_nulls |-> Some("drop"), fill_value |-> Null,
               trim_strings |-> FALSE]}
CleanSteps ==
    SeqsUpTo({[type |-> "clean_data", operations |-> o] : o \in CleanOperations}, MaxSteps)

NumberTexts == {Str(<<"5">>), Str(<<"7">>), Str(<<"x">>)}
DateTexts == {Str(<<"2", "0", "2", "0">>), Str(<<"x">>)}
TextFrames(cells) ==
    {[cols |-> {"age"}, rows |-> r] :
        r \in SeqsUpTo({[c \in {"age"} |-> a] : a \in cells}, MaxFrameRows)}
ConvertSteps(dtypes) ==
    {<<[type |-> "convert_types", mapping |-> m]>> :
        m \in {<<[column |-> "age", dtype |-> t]>> : t \in dtypes}
            \cup {<<[column |-> "height", dtype |-> "numeric"], [column |-> "age", dtype |-> t]>> : t \in dtypes}}

\* Descriptors that lack the parameter their step reads.
BareSteps == {<<[type |-> t]>> : t \in {"filter_rows", "convert_types", "clean_data", "drop_columns"}}

TransformCalled(b, steps) ==
    /\ pc = "transforming"
    /\ config = [NoConfig EXCEPT !.source_type = "csv", !.destination_type = "csv",
                                 !.transformations = steps]
    /\ extracted = Some(b)
    /\ df = b
    /\ stepIdx = 1
    /\ checkIdx = 1
    /\ report = NewReport
    /\ loadArg = NoBatch
    /\ loadResult = Null
    /\ written = Null
    /\ result = Null
    /\ exitCode = Null
    /\ log = <<>>
    /\ calls = <<"transform">>
    /\ api = NoApi
    /\ OthersIdle

TransformInit ==
    \/ \E b \in AgeFrames, steps \in FilterSteps \cup BareSteps : TransformCalled(b, steps)
    \/ \E b \in NameFrames, steps \in CleanSteps : TransformCalled(b, steps)
    \/ \E b \in TextFrames(NumberTexts \cup {Null}), steps \in ConvertSteps({"numeric", "int64"}) :
            TransformCalled(b, steps)
    \/ \E b \in TextFrames(DateTexts \cup {Null}), steps \in ConvertSteps({"datetime"}) :
            TransformCalled(b, steps)

TransformNext == TransformStep \/ TransformRaise \/ TransformReturn

TransformSpec == TransformInit /\ [][TransformNext]_vars

(* ============================== claims ================================ *)
Has(e) == \E n \in 1..Len(calls) : calls[n] = e
Logged(r) == \E n \in 1..Len(log) : log[n] = r
LoggedLevel(l) == \E n \in 1..Len(log) : log[n][1] = l
Finished == pc \in {"returned", "exited"}

\* An empty Batch: no row, or no column.
IsEmptyBatch(b) == b.rows = <<>> \/ b.cols = {}
ExtractedEmpty == extracted # Null /\ IsEmptyBatch(extracted[1])

\* The configured steps applied in order to a batch.
RECURSIVE TransformFrom(_, _, _)
TransformFrom(b, steps, n) ==
    IF n > Len(steps) THEN b ELSE TransformFrom(ApplyStep(b, steps[n]), steps, n + 1)

ReportFailed == Has("validate.done") /\ ~report.passed

\* C1: whenever extraction returns an empty Batch, run returns False and none
\* of transform, validate and load is invoked in that run.
C1_EmptyBatchAborts ==
    ExtractedEmpty =>
        /\ result = Some(FALSE)
        /\ ~Has("transform") /\ ~Has("validate") /\ ~Has("load")
        /\ written = Null

C1_Witness == ExtractedEmpty /\ pc = "exited"

\* C2: with a failed report and stop_on_validation_error false, run still
\* calls the Loader with the transformed Batch, and the run's result is the
\* Loader's result.
C2_FailedReportStillLoads ==
    (ReportFailed /\ config.stop_on_validation_error = Some(FALSE) /\ pc # "validated") =>
        /\ Has("load")
        /\ loadArg = TransformFrom(extracted[1], config.transformations, 1)
        /\ Finished => (loadResult # Null /\ result = loadResult)

C2_Witness ==
    /\ ReportFailed /\ config.stop_on_validation_error = Some(FALSE)
    /\ pc = "exited" /\ Has("load.done") /\ result = Some(TRUE)

\* C3: with a failed report and stop_on_validation_error true or absent, the
\* Loader is never invoked and run returns False.
C3_FailedReportStops ==
    (ReportFailed /\ config.stop_on_validation_error \in {Null, Some(TRUE)}) =>
        /\ ~Has("load") /\ loadResult = Null /\ written = Null
        /\ pc # "validated" => result = Some(FALSE)

C3_Witness ==
    ReportFailed /\ config.stop_on_validation_error = Null /\ pc = "exited"

\* C4: the stages are invoked in the order Extract, Transform, Validate, Load,
\* each at most once, each only after the one before it has ended; an
\* invocation that raises is the last event of the run.
StageOrder ==
    <<"extract", "extract.done", "transform", "transform.done",
      "validate", "validate.done", "load", "load.done">>
StageRaised == <<"", "extract.raised", "", "transform.raised", "", "", "", "">>

C4_StagesInOrder ==
    /\ Len(calls) <= Len(StageOrder)
    /\ \A n \in 1..Len(calls) :
        \/ calls[n] = StageOrder[n]
        \/ n = Len(calls) /\ calls[n] = StageRaised[n]

C4_Witness == calls = StageOrder

\* C5: run returns True exactly when the Loader was invoked and returned
\* success; a Loader that returns failure or raises makes run return False.
LoaderRaised == Logged(<<"ERROR", "Loading error">>)

C5_DoneIffLoaded ==
    result # Null =>
        /\ (result = Some(TRUE)) <=> (Has("load.done") /\ loadResult = Some(TRUE))
        /\ (LoaderRaised \/ loadResult = Some(FALSE)) => result = Some(FALSE)
        /\ result = Some(TRUE) => written = Some(loadArg)

C5_Witness == pc = "exited" /\ result = Some(TRUE) /\ Has("load.done")

\* C6: every invocation of run reaches one terminal outcome, which then
\* stays; after a stage failure or an abort no stage is invoked again.
StageFailed == Has("extract.raised") \/ Has("transform.raised") \/ result = Some(FALSE)

C6_TerminatesOnce ==
    /\ (pc = "run") ~> (result # Null)
    /\ [][(result # Null) => (result' = result)]_vars
    /\ [][StageFailed => (calls' = calls)]_vars

C6_Witness == pc = "exited" /\ Has("transform.raised") /\ result = Some(FALSE)

\* C7: validate returns a report with exactly N check results for N
\* configured checks, whatever each check's outcome (a check that cannot be
\* evaluated included).
C7_OneResultPerCheck ==
    Has("validate.done") => Len(report.checks) = Len(config.checks)

\* C8: the exit code is 0 when the run succeeds and 1 on an extraction error,
\* a transform error, a loader failure and a failed validation under the stop
\* policy.
C8_ExitCodes ==
    pc = "exited" =>
        /\ result = Some(TRUE) => exitCode = Some(0)
        /\ Has("extract.raised") => exitCode = Some(1)
        /\ Has("transform.raised") => exitCode = Some(1)
        /\ loadResult = Some(FALSE) => exitCode = Some(1)
        /\ (ReportFailed /\ config.stop_on_validation_error \in {Null, Some(TRUE)}) =>
                exitCode = Some(1)

C8_Witness == pc = "exited" /\ loadResult = Some(FALSE) /\ exitCode = Some(1)

\* C9 as stated: an empty extracted Batch ends the run with an outcome that is
\* not the failure outcome (not exit code 1).
C9_NoDataIsNotFailure ==
    (pc = "exited" /\ ExtractedEmpty) => exitCode # Some(1)

\* C9 amended: an empty extracted Batch is logged as a warning, with no error
\* record and no exception, but run returns False and the exit code is 1, as
\* for a failure.
C9_NoDataWarnsAndExitsOne ==
    ExtractedEmpty =>
        /\ Logged(<<"WARNING", "No data extracted, pipeline stopping">>)
        /\ ~LoggedLevel("ERROR")
        /\ ~Has("extract.raised")
        /\ result = Some(FALSE)
        /\ pc = "exited" => exitCode = Some(1)

C9_Witness == ExtractedEmpty /\ pc = "exited" /\ exitCode = Some(1)

\* C10: an error raised by the Extractor or by a Transform Step ends the run
\* aborted, no later stage is invoked and nothing is written.
C10_StageErrorIsFatal ==
    /\ Has("extract.raised") =>
        /\ result = Some(FALSE) /\ written = Null
        /\ ~Has("transform") /\ ~Has("validate") /\ ~Has("load")
    /\ Has("transform.raised") =>
        /\ result = Some(FALSE) /\ written = Null
        /\ ~Has("validate") /\ ~Has("load")

C10_Witness == pc = "exited" /\ Has("transform.raised") /\ stepIdx > 1

\* C11 as stated: a run whose configuration is in error (here a destination
\* kind that no loader serves) fails before any extraction from the source.
C11_ConfigErrorBeforeExtract ==
    (config # NoConfig /\ config.destination_type \notin SupportedDestinations) =>
        (~Has("extract") /\ extracted = Null)

\* C12: with --dry-run and a configuration that loads, the script exits with
\* code 0 and none of extract, transform, validate and load is invoked.
DryRun == Logged(<<"INFO", "Configuration validation successful">>)

C12_DryRunExitsZero ==
    DryRun =>
        /\ pc = "exited" /\ exitCode = Some(0)
        /\ calls = <<>> /\ extracted = Null /\ written = Null /\ result = Null

C12_Witness == DryRun /\ pc = "exited" /\ config # NoConfig

\* C13: a transformation of an unrecognised type leaves the Batch unchanged
\* and the loop goes on with the next step; a check of an unrecognised type
\* neither fails the report nor ends the validation.
StepKinds ==
    {"drop_columns", "rename_columns", "filter_rows", "convert_types",
     "clean_data", "aggregate", "join", "pivot", "custom"}
CheckKinds == {"not_null", "unique", "range", "format", "custom"}

AtUnknownStep ==
    /\ pc = "transforming" /\ stepIdx <= Len(config.transformations)
    /\ config.transformations[stepIdx].type \notin StepKinds
AtUnknownCheck ==
    /\ pc = "validating" /\ checkIdx <= Len(config.checks)
    /\ config.checks[checkIdx].type \notin CheckKinds

C13_UnknownKindsSkipped ==
    [][ /\ AtUnknownStep =>
            (pc' = "transforming" /\ df' = df /\ stepIdx' = stepIdx + 1 /\ result' = result)
        /\ AtUnknownCheck =>
            /\ pc' = "validating" /\ checkIdx' = checkIdx + 1
            /\ report'.passed = report.passed /\ report'.errors = report.errors
      ]_vars

C13_Witness ==
    /\ Logged(<<"WARNING", "Unknown transformation type">>)
    /\ \E n \in 1..Len(config.checks) : config.checks[n].type \notin CheckKinds
    /\ Has("load.done") /\ report.passed /\ result = Some(TRUE)
    /\ config.transformations[1].type \notin StepKinds
    /\ Len(config.transformations) = 2 /\ df # extracted[1]

\* C14: transform applies the configured steps in configuration order, each
\* once, each to the Batch the step before it returned; the Batch of the last
\* step is the one validate and load receive.
C14_StepsInOrder ==
    /\ pc = "transforming" =>
        /\ stepIdx \in 1..(Len(config.transformations) + 1)
        /\ df = TransformFrom(extracted[1], SubSeq(config.transformations, 1, stepIdx - 1), 1)
    /\ Has("validate") => df = TransformFrom(extracted[1], config.transformations, 1)
    /\ Has("load") => loadArg = TransformFrom(extracted[1], config.transformations, 1)

C14_Witness ==
    /\ Has("load.done") /\ Len(config.transformations) = 2
    /\ config.transformations[1].type = "filter_rows"
    /\ config.transformations[2].type = "drop_columns"
    /\ Len(loadArg.rows) < Len(extracted[1].rows)

(* ---- claims about DataTransformer.transform on its own (TransformSpec) ---- *)
Steps == config.transformations
\* The step the loop has just been through, when there is one.
Applied(k) == k \in 1..Len(Steps) /\ stepIdx = k + 1
InputRows == extracted[1].rows

\* C15: after a filter-rows step over the eight operators, every row of the
\* output satisfies every condition, every input row that fails a condition is
\* absent, and the rows that satisfy all of them stay in their order (ages
\* [15,18,22] under age >= 18 give [18,22]).
ClaimedOperators == {"==", "!=", "<", ">", "<=", ">=", "in", "not_in"}
Numbers == {a \in AgeCells : a # Null}
Matching(c) ==
    CASE c.operator = "=="     -> {a \in Numbers : a[1] = c.value}
      [] c.operator = "!="     -> AgeCells \ {a \in Numbers : a[1] = c.value}
      [] c.operator = "<"      -> {a \in Numbers : a[1] < c.value}
      [] c.operator = ">"      -> {a \in Numbers : c.value < a[1]}
      [] c.operator = "<="     -> {a \in Numbers : ~(c.value < a[1])}
      [] c.operator = ">="     -> {a \in Numbers : ~(a[1] < c.value)}
      [] c.operator = "in"     -> {a \in Numbers : a[1] \in c.value}
      [] c.operator = "not_in" -> AgeCells \ {a \in Numbers : a[1] \in c.value}
SatisfiesAll(r, conds) == \A k \in 1..Len(conds) : r[conds[k].column] \in Matching(conds[k])

FilterApplied ==
    /\ Applied(1) /\ Steps[1].type = "filter_rows"
    /\ \A k \in 1..Len(Steps[1].conditions) : Steps[1].conditions[k].operator \in ClaimedOperators

C15_FilterKeepsSatisfyingRows ==
    FilterApplied =>
        LET conds == Steps[1].conditions
        IN /\ \A n \in 1..Len(df.rows) : SatisfiesAll(df.rows[n], conds)
           /\ \A m \in 1..Len(InputRows) :
                ~SatisfiesAll(InputRows[m], conds) =>
                    ~\E n \in 1..Len(df.rows) : df.rows[n] = InputRows[m]
           /\ df.rows = SelectSeq(InputRows, LAMBDA r : SatisfiesAll(r, conds))

C15_Witness ==
    /\ FilterApplied /\ pc = "validating"
    /\ Steps[1].conditions = <<[column |-> "age", operator |-> ">=", value |-> 18]>>
    /\ Len(InputRows) = 3 /\ Len(df.rows) = 2
    /\ <<InputRows[1]["age"], InputRows[2]["age"], InputRows[3]["age"]>> = <<Some(15), Some(18), Some(22)>>
    /\ <<df.rows[1]["age"], df.rows[2]["age"]>> = <<Some(18), Some(22)>>

\* C16 as stated: a step with a filter-rows condition whose operator is not
\* one of the recognised ones, or without its required parameter, is never
\* gone through as if it had succeeded: the loop does not get past it.
MustFail(step) ==
    \/ step.type = "filter_rows" /\ "conditions" \notin DOMAIN step
    \/ step.type = "convert_types" /\ "mapping" \notin DOMAIN step
    \/ step.type = "clean_data" /\ "operations" \notin DOMAIN step
    \/ /\ step.type = "filter_rows" /\ "conditions" \in DOMAIN step
       /\ \E k \in 1..Len(step.conditions) : step.conditions[k].operator \notin ClaimedOperators

C16_FailingStepRaises ==
    \A k \in 1..Len(Steps) : MustFail(Steps[k]) => (stepIdx <= k /\ ~Has("transform.done"))

\* C17 as stated: after a clean step whose operations include
\* remove_duplicates no two rows of the frame are identical, and the frame has
\* no more rows than transform was given.
Deduplicating(step) ==
    step.type = "clean_data" /\ "operations" \in DOMAIN step /\ step.operations.remove_duplicates

C17_NoIdenticalRowsAfterClean ==
    \A k \in 1..Len(Steps) :
        (Applied(k) /\ Deduplicating(Steps[k])) =>
            /\ \A m, n \in 1..Len(df.rows) : m < n => df.rows[m] # df.rows[n]
            /\ Len(df.rows) <= Len(InputRows)

\* C18: remove_duplicates as the only operation of a clean step.
OnlyOperation(step, dedup, trim) ==
    /\ step.type = "clean_data" /\ "operations" \in DOMAIN step
    /\ step.operations.remove_duplicates = dedup /\ step.operations.trim_strings = trim
    /\ step.operations.handle_nulls = Null

Row(id, name) == [c \in {"id", "name"} |-> IF c = "id" THEN Some(id) ELSE Str(name)]
ScenarioA ==
    /\ Len(Steps) = 2
    /\ OnlyOperation(Steps[1], FALSE, TRUE) /\ OnlyOperation(Steps[2], TRUE, FALSE)
    /\ InputRows = <<Row(1, <<" ", "B", "o", "b", " ">>), Row(1, <<"A", "n", "n">>)>>

\* C18 as stated: the deduplication is on the key column id, one row per
\* distinct id stays; scenario A ends with the single row {id: 1, name: "Bob"}.
C18_OneRowPerKey ==
    /\ \A k \in 1..Len(Steps) :
        (Applied(k) /\ OnlyOperation(Steps[k], TRUE, FALSE)) =>
            \A m, n \in 1..Len(df.rows) : m < n => df.rows[m]["id"] # df.rows[n]["id"]
    /\ (ScenarioA /\ Applied(2)) => df.rows = <<Row(1, <<"B", "o", "b">>)>>

\* C18 amended: remove_duplicates removes the rows that repeat an earlier row
\* in every column, and only those; the first of each stays, in input order.
\* Scenario A keeps both rows, {id: 1, name: "Bob"} and {id: 1, name: "Ann"}.
FirstSeen(rows) == {n \in 1..Len(rows) : \A m \in 1..(n - 1) : rows[m] # rows[n]}

C18_ExactDuplicatesOnly ==
    /\ (Applied(1) /\ OnlyOperation(Steps[1], TRUE, FALSE)) =>
        /\ Len(df.rows) = Cardinality(FirstSeen(InputRows))
        /\ \A n \in FirstSeen(InputRows) :
            df.rows[Cardinality({m \in FirstSeen(InputRows) : m <= n})] = InputRows[n]
    /\ (ScenarioA /\ Applied(2)) =>
        df.rows = <<Row(1, <<"B", "o", "b">>), Row(1, <<"A", "n", "n">>)>>

C18_Witness == ScenarioA /\ Applied(2) /\ pc = "validating" /\ Len(df.rows) = 2

\* C19 as stated: after a convert-types step, whatever the target type, a
\* cell that cannot be converted is null, the cells that can are converted,
\* and the step has not raised.
Readable(t, dtype) ==
    CASE dtype = "datetime" -> IsDecimal(t) /\ Len(t) = 4
      [] OTHER              -> IsDecimal(t)

C19_UnconvertibleCellsBecomeNull ==
    /\ (Len(Steps) > 0 /\ Steps[1].type = "convert_types" /\ "mapping" \in DOMAIN Steps[1]) =>
        ~Has("transform.raised")
    /\ (Applied(1) /\ Steps[1].type = "convert_types") =>
        \A k \in 1..Len(Steps[1].mapping) :
            LET m == Steps[1].mapping[k]
            IN m.column \in df.cols =>
                \A n \in 1..Len(InputRows) :
                    LET in == InputRows[n][m.column]
                        out == df.rows[n][m.column]
                    IN IsText(in) =>
                        IF Readable(in[2], m.dtype) THEN ~IsText(out) /\ ~IsNull(out)
                        ELSE IsNull(out)

(* ------------ claims about DataLoader.load to an API (ApiSpec) ------------ *)
RECURSIVE Flatten(_)
Flatten(batches) == IF batches = <<>> THEN <<>> ELSE Head(batches) \o Flatten(Tail(batches))

SuccessStatus(status) == status \in 200..299

\* C20 as stated: the rows go out in order as consecutive batches of at most
\* batch_size rows; a batch answered with a non-success status is the last
\* one sent and makes load return failure; a load that returns success has
\* sent the rows of the Batch.
C20_BatchesInOrderUntilFailure ==
    /\ \A n \in 1..Len(api.posted) :
        Len(api.posted[n]) \in 1..BatchSizeOf(api.dest)
    /\ Flatten(api.posted) = SubSeq(loadArg.rows, 1, Len(Flatten(api.posted)))
    /\ \A n \in 1..Len(api.statuses) :
        ~SuccessStatus(api.statuses[n]) => (n = Len(api.statuses) /\ loadResult = Some(FALSE))
    /\ loadResult = Some(TRUE) => Flatten(api.posted) = loadArg.rows

(* ------------------------- the validation report ------------------------ *)
\* C26: in every report of validate, passed is true exactly when every
\* recorded check result is passed and the errors list is empty.
C26_PassedIffCleanReport ==
    report.passed <=>
        /\ \A n \in 1..Len(report.checks) : report.checks[n].passed
        /\ report.errors = <<>>

C26_Witness ==
    /\ Has("validate.done") /\ ~report.passed
    /\ Logged(<<"ERROR", "Validation error">>)
    /\ \A n \in 1..Len(report.checks) : report.checks[n].passed

\* C27 as stated: load to an API destination returns success only if every
\* row of the Batch went out in a batch that was answered with success,
\* whatever the configured method.
AnsweredWithSuccess ==
    {n \in 1..Len(api.posted) : n <= Len(api.statuses) /\ SuccessStatus(api.statuses[n])}
DeliveredRows ==
    Flatten([n \in 1..Len(api.posted) |-> IF n \in AnsweredWithSuccess THEN api.posted[n] ELSE <<>>])

C27_SuccessMeansAllRowsDelivered ==
    loadResult = Some(TRUE) => DeliveredRows = loadArg.rows

(* ----------------- claims about db_migration.py (MigrateSpec) ------------ *)
Workers == 1..Len(worker)
NonDecreasing(q) == \A i \in 1..(Len(q) - 1) : q[i] <= q[i + 1]

\* C21 as stated: during the concurrent table copy no handle is in use by
\* more than one worker at a time.
C21_NoSharedHandle ==
    \A j, k \in Workers :
        (j # k /\ worker[j].handle # Null) => worker[j].handle # worker[k].handle

\* C22 as stated: in every batch-copy loop the reported count and the
\* offset never decrease and the reported count never exceeds the total.
C22_ProgressWithinTotal ==
    \A k \in Workers :
        /\ NonDecreasing(worker[k].progress)
        /\ NonDecreasing(worker[k].reads)
        /\ \A i \in 1..Len(worker[k].progress) : worker[k].progress[i] <= worker[k].total

\* C23: when _migrate_table returns True for a batch size of at least 1, the
\* pages were read at offsets 0, b, 2b, ... and every source row was written
\* to the target exactly once.
TableCopied(k) ==
    /\ mig.route = "sql_to_sql" /\ mig.batch_size >= 1
    /\ worker[k].result = Some(TRUE)

C23_EveryRowWrittenOnce ==
    \A k \in Workers :
        TableCopied(k) =>
            LET n == mig.source[mig.names[k]]
            IN /\ \A i \in 1..Len(worker[k].reads) : worker[k].reads[i] = (i - 1) * mig.batch_size
               /\ \A r \in 1..n :
                    Cardinality({i \in 1..Len(worker[k].written) : worker[k].written[i] = r}) = 1
               /\ Len(worker[k].written) = n

C23_Witness ==
    \E k \in Workers :
        /\ TableCopied(k) /\ mig.batch_size = 1
        /\ worker[k].reads = <<0, 1>> /\ worker[k].written = <<1, 2>>

\* C24: the loop of _migrate_table ends for every total and every batch size
\* from 0 on, and with a batch size of at least 1 it reads at most
\* ceil(total_rows / batch_size) pages.
CeilDiv(a, b) == (a + b - 1) \div b

C24_TableLoopTerminates ==
    /\ [](\A k \in Workers :
            (mig.route = "sql_to_sql" /\ mig.batch_size >= 1) =>
                Len(worker[k].reads) <= CeilDiv(worker[k].total, mig.batch_size))
    /\ \A k \in 1..Len(AllTables) :
        (mig.route = "sql_to_sql" /\ k \in Workers /\ worker[k].pc = "counting")
            ~> (k \in Workers /\ worker[k].pc = "returned")

C24_Witness ==
    \E k \in Workers :
        /\ mig.route = "sql_to_sql" /\ mig.batch_size = 0
        /\ worker[k].total > 0 /\ worker[k].reads = <<0>> /\ worker[k].pc = "returned"

\* C25: every table is submitted before a result is awaited; when
\* _migrate_sql_to_sql returns, every worker has returned, whatever the
\* others did, and the value is True exactly when every worker returned True.
C25_TrueIffEveryWorkerTrue ==
    mig.route = "sql_to_sql" =>
        /\ mig.awaited > 0 => mig.next > Len(mig.names)
        /\ (mig.result # Null /\ mig.next > 1) => \A k \in Workers : worker[k].pc = "returned"
        /\ mig.result # Null =>
            (mig.result = Some(TRUE) <=> \A k \in Workers : worker[k].result = Some(TRUE))

C25_Witness ==
    /\ mig.route = "sql_to_sql" /\ mig.result = Some(FALSE) /\ Len(worker) = 2
    /\ worker[1].result = Some(FALSE)
    /\ worker[2].result = Some(TRUE) /\ Len(worker[2].written) = MaxTableRows

\* C29 as stated: the report main gets after a successful migration has
\* status 'completed' and counts the tables that were migrated.
C29_ReportCompleted ==
    mig.report # Null =>
        /\ mig.report[1].status = "completed"
        /\ mig.report[1].total_tables = Len(mig.names)

(* ------------------ claims about db_backup.py (BackupSpec) ---------------- *)
Happened(op, file, upto) ==
    \E j \in 1..upto : bak.events[j] = Event(op, file, TRUE)

Succeeded(op, upto) ==
    \E j \in 1..upto : bak.events[j].op = op /\ bak.events[j].ok

\* C28: with verify_backup enabled a file is uploaded only after verify_backup
\* returned True for that same file; the cleanup of old backups runs only after
\* the enabled verification and upload succeeded; and post_backup_process
\* returns True only if every enabled verify and upload step succeeded.
C28_VerifyThenUploadThenCleanup ==
    /\ \A i \in 1..Len(bak.events) :
          /\ (bak.events[i].op = "upload" /\ bak.verify_backup)
                => Happened("verify", bak.events[i].file, i - 1)
          /\ bak.events[i].op = "cleanup"
                => /\ bak.verify_backup => Succeeded("verify", i - 1)
                   /\ bak.s3_upload => Succeeded("upload", i - 1)
    /\ bak.result = Some(TRUE)
          => /\ bak.verify_backup
                  => Happened("verify", bak.backup_file, Len(bak.events))
             /\ bak.s3_upload
                  => Happened("upload", bak.backup_file, Len(bak.events))

\* A compressed dump was verified, uploaded, the old backups were cleaned up
\* and the process returned True.
C28_Witness ==
    /\ bak.result = Some(TRUE)
    /\ bak.verify_backup /\ bak.s3_upload
    /\ Len(bak.events) >= 4
    /\ bak.events[1] = Event("compress", <<"postgresql", "sql">>, TRUE)
    /\ bak.events[3] = Event("upload", <<"postgresql", "sql", "gz">>, TRUE)
    /\ bak.events[4].op = "cleanup"

(* ------------------ claims about data_sync.py (SyncSpec) ------------------ *)
\* The record's version is still the source's and no write of it reached the
\* target.
Outstanding(record) ==
    /\ sync.source[record[1]] = record[2]
    /\ \A j \in 1..Len(sync.target[record[1]]) : sync.target[record[1]][j] # record[2]

\* What the next sync_table of the table would detect.
NextChanges == DetectChanges(sync.source, GetLastSyncTime(sync))

\* After sync_table the processed changes are those counted as synced plus
\* those counted as errors.
SyncCounted ==
    sync.pc = "idle" => sync.processed = sync.synced + (sync.errors - sync.errors_before)

\* C30: after sync_table, a changed record whose write to the target failed is
\* not lost: the stored last-sync time is not advanced past it, so the next
\* sync_table detects it again; and the processed changes are the records
\* counted as synced plus those counted as errors.
C30_FailedRecordRetried ==
    /\ (sync.pc = "idle" /\ sync.runs > 0)
          => \A record \in sync.failed :
                Outstanding(record)
                   => \E k \in 1..Len(NextChanges) : NextChanges[k] = record
    /\ SyncCounted

====
